---------------------------- MODULE Spec2Model ----------------------------
(***************************************************************************)
(* A model of voleur: the snapshot catalog (models.py, repo.py) and its    *)
(* retry wrapper (cmd.py), the extraction pipeline with its two reader     *)
(* threads (dumper.py, utils.py), the line transformers (dumper.py,        *)
(* writer.py), the iterator-to-stream adapter (utils.py) and the restore   *)
(* feed loop (writer.py).  Each subsystem has its own specification; the   *)
(* variables of the other subsystems stay at their idle values.            *)
(***************************************************************************)
EXTENDS Integers, Sequences, FiniteSets, TLC

VARIABLES
    \* ---- catalog: repo.py, models.py, cmd.py
    store,      \* the persisted <bucket>/_metadata.json document, or NotFound
    pc,         \* per process: position in cmd.stash / _safely_update_stash
    stash,      \* per process: the in-memory models.Stash it holds
    remaining,  \* per process: the local `remaining` of _safely_update_stash
    result,     \* per process: the local `result` (the Dump update_fn returned)
    outcome,    \* per process: how _safely_update_stash ended
    attempts,   \* per process: number of update_fn calls made (history)
    saves,      \* per process: number of StashRepo.save calls completed (history)
    conflicts,  \* per process: number of VersionConflict exceptions caught (history)
    loaded,     \* per process: the catalog its last StashRepo.load returned (history)
    \* ---- line transformers: dumper._process_stdout_line, writer._fix_insert_statement
    lnFn,       \* which transformer(s) the run applies
    lnIn,       \* the input line (a sequence of characters)
    lnOnce,     \* the line after the first application
    lnTwice,    \* the line after the second application
    lnStage,    \* "raw", "once" or "twice"
    \* ---- utils._IteratorStream
    stIter,     \* the chunks the wrapped iterator has still to yield
    stLeftover, \* self._leftover
    stAll,      \* every byte of the iterator's chunks, in order (history)
    stOut,      \* the bytes readinto returned before its first 0 (history)
    stCap,      \* len(b) of the last readinto call, 0 before the first
    stRet,      \* the value the last readinto call returned, -1 before the first
    stZero,     \* a readinto call has returned 0
    \* ---- writer.write_dump
    wrPc,       \* position in write_dump
    wrStream,   \* the lines the input stream has still to deliver
    wrClosed,   \* stream.closed
    wrLine,     \* the line readline() returned, about to be transformed and written
    wrWritten,  \* the lines written to the client's stdin (history)
    wrClient,   \* the replay client: "none", "running" or "exited"
    wrCode,     \* the exit status the client ends with (Popen.returncode)
    wrStdin,    \* the client's stdin pipe: "open" or "closed"
    wrOutcome,  \* how write_dump ended
    \* ---- dumper.extract_dump / _klepto_steal / _consume_output, utils.FileReaderThread
    exIn,       \* the run's inputs: config path state, binary present, the
                \* lines the subprocess writes to stdout and to stderr
    mpc,        \* the calling thread: position around the `with` block
    gpc,        \* the _consume_output generator: position in its body
    exitPath,   \* how the `with` body was left
    rpc,        \* per reader thread: position in FileReaderThread.run
    src,        \* per reader: the lines its handle has still to deliver
    held,       \* per reader: the line read and not yet put on the queue
    queue,      \* per reader: self._queue
    stopEvent,  \* per reader: self._stop_event is set
    closed,     \* per handle: close() was called on it
    joined,     \* per reader: join() has returned (history)
    errMsg,     \* err_msg, << >> for None
    yielded,    \* the chunks the generator has yielded (history)
    putsAfterStop, \* per reader: lines enqueued while its stop event was set
                \* (history)
    \* ---- models.Stash used through its methods
    apiStash,   \* the Stash object the calls are made on
    apiOp,      \* the last call made: its kind and arguments (history)
    \* ---- storage.make_storage_url / parse_storage_url
    urlBackend, \* the backend name
    urlPath,    \* the file path
    urlMade,    \* what make_storage_url returned
    urlParsed,  \* what parse_storage_url returned for urlMade
    urlStage    \* "args", "made" or "parsed"

catVars == <<store, pc, stash, remaining, result, outcome, attempts, saves,
             conflicts, loaded>>
lnVars == <<lnFn, lnIn, lnOnce, lnTwice, lnStage>>
stVars == <<stIter, stLeftover, stAll, stOut, stCap, stRet, stZero>>
wrVars == <<wrPc, wrStream, wrClosed, wrLine, wrWritten, wrClient, wrCode,
            wrStdin, wrOutcome>>

exVars == <<exIn, mpc, gpc, exitPath, rpc, src, held, queue, stopEvent, closed,
            joined, errMsg, yielded, putsAfterStop>>

apiVars == <<apiStash, apiOp>>
urlVars == <<urlBackend, urlPath, urlMade, urlParsed, urlStage>>

vars == <<catVars, lnVars, stVars, wrVars, exVars, apiVars, urlVars>>

Range(s) == {s[i] : i \in DOMAIN s}

(***************************************************************************)
(* Catalog: models.py                                                      *)
(***************************************************************************)
NumProcs == 2          \* concurrent `stash` commands on the same bucket
NumIds == 2            \* distinct values uuid4().hex[:8] can take in the model
Tries == 5             \* cmd.py: tries: int = 5

Procs == 1..NumProcs
DumpIds == 1..NumIds

\* The -t argument of each process's stash command: the processes share tag
\* "a", one adds "b", one passes no tag.
TagArgs == << <<"a">>, <<"a", "b">>, << >> >>
tagsArg(p) == TagArgs[((p - 1) % Len(TagArgs)) + 1]

Bucket == "bucket"

\* models.Dump.  The timestamp field is carried opaquely by every operation
\* and read by none; it is left out of the record.
Dump(id, url) == [dump_id |-> id, storage_url |-> url]

\* Python's None where a Dump is expected (no dump has id 0).
None == Dump(0, 0)

\* models.Stash(bucket=bucket): no tags, no dumps.
EmptyStash == [bucket |-> Bucket, tags |-> << >>, dumps |-> << >>]

\* Stash.tags is a dict tag -> dump_id: a function on the tags set so far.
TagsSet(tags, tag, id) ==
    [t \in (DOMAIN tags) \cup {tag} |-> IF t = tag THEN id ELSE tags[t]]

\* get_dump looking the argument up as a literal id only, without
\* `self.tags.get`.
get_dumpLiteralId(s, id_or_tag) ==
    LET hits == SelectSeq(s.dumps, LAMBDA d : d.dump_id = id_or_tag)
    IN  IF hits # << >> THEN hits[1] ELSE None

\* Stash.get_dump: resolve through tags first, else a literal id; first hit.
get_dump(s, id_or_tag) ==
    LET dump_id == IF id_or_tag \in DOMAIN s.tags THEN s.tags[id_or_tag]
                   ELSE id_or_tag
        hits == SelectSeq(s.dumps, LAMBDA d : d.dump_id = dump_id)
    IN  IF hits # << >> THEN hits[1] ELSE None

\* Stash.add_dump: append a Dump with a fresh uuid-derived id (an input).
add_dump(s, id, storage_url) ==
    [s EXCEPT !.dumps = Append(s.dumps, Dump(id, storage_url))]

\* tag_dump assigning a fresh dict instead of updating self.tags in place.
tag_dumpReplacing(s, dump, tags) ==
    [s EXCEPT !.tags = [t \in Range(tags) |-> dump.dump_id]]

\* Stash.tag_dump: for tag in tags: self.tags[tag] = dump.dump_id.
RECURSIVE tag_dump(_, _, _)
tag_dump(s, dump, tags) ==
    IF tags = << >> THEN s
    ELSE tag_dump([s EXCEPT !.tags = TagsSet(s.tags, Head(tags), dump.dump_id)],
                  dump, Tail(tags))

\* Stash.get_tags: the tags whose mapped id is dump_id.
get_tags(s, dump_id) == {t \in DOMAIN s.tags : s.tags[t] = dump_id}

(***************************************************************************)
(* StashRepo: repo.py                                                      *)
(***************************************************************************)
marshal_dump(d) == [dump_id |-> d.dump_id, storage_url |-> d.storage_url]

unmarshal_dump(d) == Dump(d.dump_id, d.storage_url)

marshal_stash(s) ==
    [bucket |-> s.bucket, tags |-> s.tags,
     dumps |-> [i \in DOMAIN s.dumps |-> marshal_dump(s.dumps[i])]]

unmarshal_stash(doc) ==
    [bucket |-> doc.bucket, tags |-> doc.tags,
     dumps |-> [i \in DOMAIN doc.dumps |-> unmarshal_dump(doc.dumps[i])]]

\* The storage object <bucket>/_metadata.json: absent (storage.read raises
\* NotFoundError) or present with a document.
NotFound == [found |-> FALSE, doc |-> marshal_stash(EmptyStash)]
Stored(doc) == [found |-> TRUE, doc |-> doc]

\* A load that ignores the stored document and always builds a new Stash.
LoadStashAlwaysEmpty(obj) == EmptyStash

\* StashRepo.load: the stored document, or an empty Stash on NotFoundError.
LoadStash(obj) == IF ~obj.found THEN EmptyStash ELSE unmarshal_stash(obj.doc)

\* StashRepo.save: storage.store overwrites the document with the marshalled
\* stash.  Nothing is compared with what is stored: the code never raises
\* VersionConflict here.
SaveStash(obj, s) == Stored(marshal_stash(s))

(***************************************************************************)
(* cmd.py: stash (lines 33-37), _add_dump, _safely_update_stash            *)
(***************************************************************************)
\* cmd._add_dump: add_dump then tag_dump(dump, tags or []).
_add_dump(s, id, storage_url, tags) ==
    tag_dump(add_dump(s, id, storage_url), Dump(id, storage_url), tags)

\* The payload URL process p uploaded before touching the catalog.
StorageUrl(p) == p

\* The loop test off by one: `while remaining >= 0`.
LoopCondOffByOne(rem) == rem >= 0

\* `while remaining > 0`
LoopCond(rem) == rem > 0

CatFrame == UNCHANGED <<lnVars, stVars, wrVars, exVars, apiVars, urlVars>>

\* The state when the stash commands start: no metadata document yet, each
\* wrapper with `tries` attempts left.
CatStart(tries) ==
    /\ store = NotFound
    /\ pc = [p \in Procs |-> "load"]
    /\ stash = [p \in Procs |-> EmptyStash]
    /\ remaining = [p \in Procs |-> tries]
    /\ result = [p \in Procs |-> None]
    /\ outcome = [p \in Procs |-> "running"]
    /\ attempts = [p \in Procs |-> 0]
    /\ saves = [p \in Procs |-> 0]
    /\ conflicts = [p \in Procs |-> 0]
    /\ loaded = [p \in Procs |-> EmptyStash]

\* cmd.stash line 33: stash = repo.StashRepo.load(bucket)
Load(p) ==
    /\ pc[p] = "load"
    /\ stash' = [stash EXCEPT ![p] = LoadStash(store)]
    /\ loaded' = [loaded EXCEPT ![p] = LoadStash(store)]
    /\ pc' = [pc EXCEPT ![p] = "loop"]
    /\ UNCHANGED <<store, remaining, result, outcome, attempts, saves,
                   conflicts>>
    /\ CatFrame

\* _safely_update_stash lines 97-98: the loop test and `remaining -= 1`.
LoopEnter(p) ==
    /\ pc[p] = "loop"
    /\ LoopCond(remaining[p])
    /\ remaining' = [remaining EXCEPT ![p] = remaining[p] - 1]
    /\ pc' = [pc EXCEPT ![p] = "update"]
    /\ UNCHANGED <<store, stash, result, outcome, attempts, saves, conflicts,
                   loaded>>
    /\ CatFrame

\* _safely_update_stash falls off the end of the loop: the function returns
\* None, and cmd.stash line 37 then reads dump.dump_id of None.
LoopExit(p) ==
    /\ pc[p] = "loop"
    /\ ~LoopCond(remaining[p])
    /\ pc' = [pc EXCEPT ![p] = "done"]
    /\ result' = [result EXCEPT ![p] = None]
    /\ outcome' = [outcome EXCEPT ![p] = "returned_none"]
    /\ UNCHANGED <<store, stash, remaining, attempts, saves, conflicts, loaded>>
    /\ CatFrame

\* line 100: result = update_fn(stash), with update_fn = _add_dump.
Update(p) ==
    /\ pc[p] = "update"
    /\ \E id \in DumpIds :
          /\ stash' = [stash EXCEPT
                         ![p] = _add_dump(stash[p], id, StorageUrl(p), tagsArg(p))]
          /\ result' = [result EXCEPT ![p] = Dump(id, StorageUrl(p))]
    /\ attempts' = [attempts EXCEPT ![p] = attempts[p] + 1]
    /\ pc' = [pc EXCEPT ![p] = "save"]
    /\ UNCHANGED <<store, remaining, outcome, saves, conflicts, loaded>>
    /\ CatFrame

\* lines 101-102: repo.StashRepo.save(stash); return result.
Save(p) ==
    /\ pc[p] = "save"
    /\ store' = SaveStash(store, stash[p])
    /\ saves' = [saves EXCEPT ![p] = saves[p] + 1]
    /\ pc' = [pc EXCEPT ![p] = "done"]
    /\ outcome' = [outcome EXCEPT ![p] = "returned"]
    /\ UNCHANGED <<stash, remaining, result, attempts, conflicts, loaded>>
    /\ CatFrame

\* An except clause that loads the catalog and drops what it loaded: the
\* in-memory copy keeps the dump of the failed attempt.
ConflictWithoutReload(p) ==
    /\ pc[p] = "save"
    /\ loaded' = [loaded EXCEPT ![p] = LoadStash(store)]
    /\ conflicts' = [conflicts EXCEPT ![p] = conflicts[p] + 1]
    /\ pc' = [pc EXCEPT ![p] = "loop"]
    /\ UNCHANGED <<store, stash, remaining, result, outcome, attempts, saves>>
    /\ CatFrame

\* lines 103-104: the try body raised VersionConflict; reload the stash.
\* StashRepo.save as written never raises it, so the only origin is the
\* caller-supplied callable; it is an input of the wrapper, raised here after
\* the mutation was applied to the in-memory copy.
Conflict(p) ==
    /\ pc[p] = "save"
    /\ stash' = [stash EXCEPT ![p] = LoadStash(store)]
    /\ loaded' = [loaded EXCEPT ![p] = LoadStash(store)]
    /\ conflicts' = [conflicts EXCEPT ![p] = conflicts[p] + 1]
    /\ pc' = [pc EXCEPT ![p] = "loop"]
    /\ UNCHANGED <<store, remaining, result, outcome, attempts, saves>>
    /\ CatFrame

NextCatalog ==
    \E p \in Procs :
        \/ Load(p)
        \/ LoopEnter(p)
        \/ LoopExit(p)
        \/ Update(p)
        \/ Save(p)
        \/ Conflict(p)

(***************************************************************************)
(* Claims about the catalog and the retry wrapper                          *)
(***************************************************************************)
\* C1: no concurrent addition is lost: whenever a process's
\* _safely_update_stash has returned the dump it saved, that dump is in the
\* persisted catalog (a save from a stale copy would have failed with
\* VersionConflict and been redone on a fresh copy).
C1_NoAdditionLost ==
    \A p \in Procs :
        outcome[p] = "returned" => result[p] \in Range(store.doc.dumps)

\* C4: when every attempt of _safely_update_stash failed with VersionConflict
\* (no save completed), the wrapper ends by raising the last VersionConflict;
\* it never returns normally.
C4_ConflictSurfaced ==
    \A p \in Procs :
        (pc[p] = "done" /\ saves[p] = 0) => outcome[p] = "raised_conflict"

\* C5: _safely_update_stash with tries=5 calls update_fn and save at most 5
\* times: `remaining` counts the attempts left and never goes below 0, the
\* wrapper ends without a save only after exactly 5 conflicting attempts,
\* it makes no attempt after its first completed save, and until it has
\* ended it can always take its next step.
C5_AtMostFiveAttempts ==
    \A p \in Procs :
        /\ attempts[p] <= Tries
        /\ remaining[p] >= 0
        /\ remaining[p] = Tries - attempts[p] - (IF pc[p] = "update" THEN 1 ELSE 0)
        /\ saves[p] <= 1
        /\ saves[p] = 1 => (pc[p] = "done" /\ attempts[p] = conflicts[p] + 1)
        /\ (pc[p] = "done" /\ saves[p] = 0) =>
               (attempts[p] = Tries /\ conflicts[p] = Tries)
        /\ pc[p] # "done" =>
               ENABLED (Load(p) \/ LoopEnter(p) \/ LoopExit(p) \/ Update(p)
                        \/ Save(p) \/ Conflict(p))

\* C5 witness: a wrapper that ended after 5 conflicting attempts and no save,
\* beside one that saved on an attempt after a conflict.
C5_Witness ==
    \E p, q \in Procs :
        /\ pc[p] = "done" /\ attempts[p] = Tries /\ saves[p] = 0
        /\ pc[q] = "done" /\ saves[q] = 1 /\ conflicts[q] >= 1

\* C24: when _safely_update_stash with _add_dump succeeds after k >= 0
\* conflicting attempts, the document it persists is the most recently
\* loaded catalog plus exactly one new dump and its tags: no dump appended
\* during a failed attempt reaches the persisted catalog, and the dump
\* returned to the caller is the one persisted.
C24_PersistedIsLoadedPlusOne ==
    [][\A p \in Procs :
          (pc[p] = "save" /\ pc'[p] = "done") =>
              LET doc == store'.doc
                  n == Len(doc.dumps)
              IN  /\ outcome'[p] = "returned"
                  /\ doc = marshal_stash(_add_dump(loaded[p], result'[p].dump_id,
                                                   StorageUrl(p), tagsArg(p)))
                  /\ n = Len(loaded[p].dumps) + 1
                  /\ unmarshal_dump(doc.dumps[n]) = result'[p]]_vars

\* C24 witness: a wrapper returned after at least one conflicting attempt,
\* its last load found another process's dump, and the persisted document is
\* the one it saved.
C24_Witness ==
    \E p \in Procs :
        /\ outcome[p] = "returned"
        /\ conflicts[p] >= 1
        /\ Len(loaded[p].dumps) >= 1
        /\ store.doc = marshal_stash(stash[p])
        /\ Len(store.doc.dumps) = Len(loaded[p].dumps) + 1

\* No two entries of a dumps sequence share a dump_id.
UniqueIds(dumps) ==
    \A i, j \in DOMAIN dumps : dumps[i].dump_id = dumps[j].dump_id => i = j

\* C13: dump ids are unique within a catalog in every reachable state: after
\* any sequence of add_dump calls and load/save cycles no two entries of
\* Stash.dumps, in memory or persisted, share a dump_id.
C13_DumpIdsUnique ==
    /\ \A p \in Procs : UniqueIds(stash[p].dumps)
    /\ UniqueIds(store.doc.dumps)

\* C14: StashRepo.load (cmd.py lines 33 and 104) on a bucket whose metadata
\* document storage reports as not found returns a catalog for that bucket
\* with no tags and no dumps and raises nothing; when the document exists it
\* returns the persisted tags and dumps.
C14_LoadEmptyOrPersisted ==
    [][\A p \in Procs :
          (pc[p] \in {"load", "save"} /\ pc'[p] = "loop") =>
              /\ stash'[p].bucket = Bucket
              /\ outcome'[p] = "running"
              /\ ~store.found =>
                     (stash'[p].tags = << >> /\ stash'[p].dumps = << >>)
              /\ store.found =>
                     /\ stash'[p].tags = store.doc.tags
                     /\ stash'[p].dumps = store.doc.dumps]_vars

\* C14 witness: one command found no document, added its dump and saved;
\* another has just loaded that document, with its dump and its tag.
C14_Witness ==
    \E p, q \in Procs :
        /\ pc[q] = "done" /\ saves[q] = 1 /\ Len(stash[q].dumps) = 1
        /\ pc[p] = "loop" /\ attempts[p] = 0
        /\ stash[p].dumps # << >> /\ stash[p].tags # << >>
        /\ stash[p] = LoadStash(store)

(***************************************************************************)
(* models.Stash called method by method on one in-memory object            *)
(***************************************************************************)
MaxDumps == 2          \* add_dump calls made on the object

\* The strings that occur as tag names: each string uuid4().hex[:8] can
\* produce (a tag may be spelled like a dump id) and one that is no dump id.
\* Strings are numbered, so that a tag and an id can be compared.
TagNames == 1..(NumIds + 1)

\* The `tags` argument of tag_dump: lists of zero, one or two tag names.
TagLists ==
    {<< >>} \cup {<<t>> : t \in TagNames} \cup {<<t, u>> : t, u \in TagNames}

NoCall == [kind |-> "none", dump |-> None, tags |-> << >>, after_add |-> FALSE]

ApiFrame == UNCHANGED <<catVars, lnVars, stVars, wrVars, exVars, urlVars>>

\* models.Stash(bucket=...): the object starts as one of `stashes`.
ApiStart(stashes) ==
    /\ apiStash \in stashes
    /\ apiOp = NoCall

\* stash.add_dump(storage_url): the id is the uuid4 prefix drawn, the URL is
\* the one of this upload (the n-th upload has URL n).
ApiAddDump ==
    /\ Len(apiStash.dumps) < MaxDumps
    /\ \E id \in DumpIds :
          LET url == Len(apiStash.dumps) + 1 IN
          /\ apiStash' = add_dump(apiStash, id, url)
          /\ apiOp' = [kind |-> "add", dump |-> Dump(id, url), tags |-> << >>,
                       after_add |-> FALSE]
    /\ ApiFrame

\* stash.tag_dump(dump, tags) for a dump of the stash; after_add records that
\* `dump` is the one the call just before returned from add_dump.
ApiTagDump ==
    /\ \E dump \in Range(apiStash.dumps), tags \in TagLists :
          /\ apiStash' = tag_dump(apiStash, dump, tags)
          /\ apiOp' = [kind |-> "tag", dump |-> dump, tags |-> tags,
                       after_add |-> (apiOp.kind = "add" /\ apiOp.dump = dump)]
    /\ ApiFrame

NextStash == ApiAddDump \/ ApiTagDump

\* The ids of the dumps listed in stash s.
IdsOf(s) == {s.dumps[i].dump_id : i \in DOMAIN s.dumps}

\* The case C11 is about: tag_dump(d, T) with T non-empty, called right after
\* d = add_dump(url).
C11_Case == apiOp.kind = "tag" /\ apiOp.after_add /\ apiOp.tags # << >>

\* What C11 promises then: every tag of T resolves to d and maps to an id
\* present in dumps, and get_tags(d.dump_id) is exactly the set T.
C11_Post ==
    LET d == apiOp.dump
        T == Range(apiOp.tags)
    IN  /\ \A t \in T : get_dump(apiStash, t) = d
        /\ \A t \in T : apiStash.tags[t] \in IdsOf(apiStash)
        /\ get_tags(apiStash, d.dump_id) = T

C11_IdFresh ==
    Cardinality({i \in DOMAIN apiStash.dumps :
                    apiStash.dumps[i].dump_id = apiOp.dump.dump_id}) = 1

C12_TagDumpFrame ==
    [][apiOp'.kind = "tag" =>
          LET T == Range(apiOp'.tags) IN
          /\ apiStash'.dumps = apiStash.dumps
          /\ DOMAIN apiStash'.tags = (DOMAIN apiStash.tags) \cup T
          /\ \A t \in (DOMAIN apiStash.tags) \ T :
                 apiStash'.tags[t] = apiStash.tags[t]
          /\ \A t \in T : apiStash'.tags[t] = apiOp'.dump.dump_id]_vars

\* C12 witness: the second dump was tagged with one tag while another tag
\* resolves to the first dump, whose id differs.
C12_Witness ==
    /\ apiOp.kind = "tag"
    /\ Len(apiStash.dumps) = 2
    /\ apiOp.dump = apiStash.dumps[2]
    /\ Len(apiOp.tags) = 1
    /\ apiStash.dumps[1].dump_id # apiStash.dumps[2].dump_id
    /\ \E c \in (DOMAIN apiStash.tags) \ Range(apiOp.tags) :
           get_dump(apiStash, c) = apiStash.dumps[1]

\* C22: every dump of the catalog is retrievable by its own id: in every
\* state reached by add_dump and tag_dump with arbitrary tag names,
\* get_dump(d.dump_id) returns d for each dump d in dumps; a tag named like a
\* dump's id never redirects the lookup.
C22_RetrievableByOwnId ==
    \A i \in DOMAIN apiStash.dumps :
        get_dump(apiStash, apiStash.dumps[i].dump_id) = apiStash.dumps[i]

(***************************************************************************)
(* Byte strings: a line is a sequence of one-character strings.  The       *)
(* operators below are Python's bytes.startswith, endswith, strip and      *)
(* replace.                                                                *)
(***************************************************************************)
startswith(s, prefix) ==
    Len(s) >= Len(prefix) /\ SubSeq(s, 1, Len(prefix)) = prefix

endswith(s, suffix) ==
    Len(s) >= Len(suffix) /\ SubSeq(s, Len(s) - Len(suffix) + 1, Len(s)) = suffix

\* The ASCII whitespace bytes.strip() removes (vertical tab has no TLA+
\* escape and is not among the characters of the model's lines).
Whitespace == {" ", "\t", "\n", "\r", "\f"}

RECURSIVE lstrip(_)
lstrip(s) ==
    IF s # << >> /\ Head(s) \in Whitespace THEN lstrip(Tail(s)) ELSE s

RECURSIVE rstrip(_)
rstrip(s) ==
    IF s # << >> /\ s[Len(s)] \in Whitespace
    THEN rstrip(SubSeq(s, 1, Len(s) - 1)) ELSE s

strip(s) == rstrip(lstrip(s))

\* bytes.replace(old, new): every non-overlapping occurrence, left to right.
RECURSIVE replace(_, _, _)
replace(s, old, new) ==
    IF s = << >> THEN << >>
    ELSE IF startswith(s, old)
         THEN new \o replace(SubSeq(s, Len(old) + 1, Len(s)), old, new)
         ELSE <<Head(s)>> \o replace(Tail(s), old, new)

\* The byte-string literals of dumper.py and writer.py.
INSERT_INTO == <<"I", "N", "S", "E", "R", "T", " ", "I", "N", "T", "O">>
INSERT_INTO_SP == INSERT_INTO \o <<" ">>
INSERT_INTO_PUBLIC == INSERT_INTO_SP \o <<"p", "u", "b", "l", "i", "c", ".">>
QUOTED_NULL == <<"'", "N", "U", "L", "L", "'">>
BARE_NULL == <<"N", "U", "L", "L">>
UTC_SUFFIX == <<"+", "0", "0", "0", "0", " ", "U", "T", "C">>
UTC_SHORT == <<"+", "0", "0">>
SEMI == <<";">>
NL == <<"\n">>

(***************************************************************************)
(* Line transformers: dumper.py lines 129-146, writer.py lines 37-59       *)
(***************************************************************************)
\* The three replacements both transformers apply after strip().
\* line.strip().replace(...).replace(...).replace(...): each call works on
\* the value the call before it returned.
Fixups(line) ==
    LET stripped == {strip(line)}
        qualified == {replace(l, INSERT_INTO_SP, INSERT_INTO_PUBLIC) : l \in stripped}
        unquoted == {replace(l, QUOTED_NULL, BARE_NULL) : l \in qualified}
        shortened == {replace(l, UTC_SUFFIX, UTC_SHORT) : l \in unquoted}
    IN  CHOOSE l \in shortened : TRUE

\* dumper._process_stdout_line: ";\n" is appended only when the stripped
\* line does not end with ";".
_process_stdout_line(line) ==
    IF startswith(line, INSERT_INTO)
    THEN LET fixed == Fixups(line)
         IN  IF ~endswith(fixed, SEMI) THEN fixed \o SEMI \o NL ELSE fixed
    ELSE line

\* writer._fix_insert_statement: ";" is appended when missing, and "\n" always.
_fix_insert_statement(line) ==
    IF ~startswith(line, INSERT_INTO) THEN line
    ELSE LET fixed == Fixups(line)
         IN  (IF ~endswith(fixed, SEMI) THEN fixed \o SEMI ELSE fixed) \o NL

MaxSegs == 4           \* segments an input line is made of

\* The pieces input lines are built from: the marker, the patterns the
\* fixups look for, the terminator, whitespace and an ordinary character.
Segments == {INSERT_INTO, <<" ">>, <<"t">>, QUOTED_NULL, UTC_SUFFIX, SEMI, NL}

RECURSIVE LinesOf(_)
LinesOf(n) ==
    IF n = 0 THEN {<< >>}
    ELSE LET shorter == LinesOf(n - 1)
         IN  shorter \cup {l \o g : l \in shorter, g \in Segments}

InputLines == LinesOf(MaxSegs)

\* What a run applies first and second: the same transformer twice, or the
\* dumper's at stash time and the writer's at restore time.
LineFns == {"dumper", "writer", "stash_restore"}

first_transform(fn, line) ==
    IF fn = "writer" THEN _fix_insert_statement(line)
    ELSE _process_stdout_line(line)

second_transform(fn, line) ==
    IF fn = "dumper" THEN _process_stdout_line(line)
    ELSE _fix_insert_statement(line)

LnFrame == UNCHANGED <<catVars, stVars, wrVars, exVars, apiVars, urlVars>>

\* A run picks its transformers and its input line.
LnStart(fns, lines) ==
    /\ lnFn \in fns
    /\ lnIn \in lines
    /\ lnOnce = << >>
    /\ lnTwice = << >>
    /\ lnStage = "raw"

TransformOnce ==
    /\ lnStage = "raw"
    /\ lnOnce' = first_transform(lnFn, lnIn)
    /\ lnStage' = "once"
    /\ UNCHANGED <<lnFn, lnIn, lnTwice>>
    /\ LnFrame

TransformAgain ==
    /\ lnStage = "once"
    /\ lnTwice' = second_transform(lnFn, lnOnce)
    /\ lnStage' = "twice"
    /\ UNCHANGED <<lnFn, lnIn, lnOnce>>
    /\ LnFrame

NextLine == TransformOnce \/ TransformAgain

\* C8: the line transformer is idempotent: a line transformed twice (by
\* _process_stdout_line, by _fix_insert_statement, or by the first at stash
\* time and the second at restore time) equals the line transformed once.
C8_Idempotent == lnStage = "twice" => lnTwice = lnOnce

(***************************************************************************)
(* utils._IteratorStream: lines 20-52                                      *)
(***************************************************************************)
MaxChunks == 3         \* chunks the wrapped iterator yields
MaxChunkLen == 2       \* bytes in one chunk
MaxCap == 2            \* len(b) of a readinto call

\* The iterator's chunks for the given chunk lengths: the bytes are numbered
\* 1, 2, 3, ... in the order the iterator yields them, so a lost, repeated
\* or reordered byte shows.
RECURSIVE MakeChunks(_, _)
MakeChunks(lens, next) ==
    IF lens = << >> THEN << >>
    ELSE <<[k \in 1..Head(lens) |-> next + k - 1]>>
         \o MakeChunks(Tail(lens), next + Head(lens))

ChunkLengths == UNION {[1..n -> 0..MaxChunkLen] : n \in 0..MaxChunks}

RECURSIVE Concat(_)
Concat(chunks) ==
    IF chunks = << >> THEN << >> ELSE Head(chunks) \o Concat(Tail(chunks))

\* `chunk = self._leftover or next(self._iterator)`: the leftover when it is
\* non-empty, else the iterator's next chunk; StopIteration when there is none.
NextChunk(leftover, iter) ==
    IF leftover # << >> THEN [stop |-> FALSE, chunk |-> leftover, iter |-> iter]
    ELSE IF iter = << >> THEN [stop |-> TRUE, chunk |-> << >>, iter |-> iter]
    ELSE [stop |-> FALSE, chunk |-> Head(iter), iter |-> Tail(iter)]

\* _IteratorStream.readinto(b) with len(b) = n: the bytes copied into b, the
\* new leftover, what is left of the iterator, and the returned count.
readinto(leftover, iter, n) ==
    LET c == NextChunk(leftover, iter)
        k == IF Len(c.chunk) < n THEN Len(c.chunk) ELSE n
    IN  IF c.stop
        THEN [output |-> << >>, leftover |-> leftover, iter |-> iter, ret |-> 0]
        ELSE [output |-> SubSeq(c.chunk, 1, k),
              leftover |-> SubSeq(c.chunk, k + 1, Len(c.chunk)),
              iter |-> c.iter, ret |-> k]

StFrame == UNCHANGED <<catVars, lnVars, wrVars, exVars, apiVars, urlVars>>

\* A fresh _IteratorStream over an iterator with the given chunk lengths.
StStart(lengths) ==
    /\ \E lens \in lengths : stIter = MakeChunks(lens, 1)
    /\ stLeftover = << >>
    /\ stAll = Concat(stIter)
    /\ stOut = << >>
    /\ stCap = 0
    /\ stRet = -1
    /\ stZero = FALSE

\* One readinto call with a buffer of n bytes.
ReadInto(n) ==
    LET r == readinto(stLeftover, stIter, n)
    IN  /\ stLeftover' = r.leftover
        /\ stIter' = r.iter
        /\ stCap' = n
        /\ stRet' = r.ret
        /\ stZero' = (stZero \/ r.ret = 0)
        /\ stOut' = IF stZero THEN stOut ELSE stOut \o r.output
        /\ UNCHANGED stAll
        /\ StFrame

NextStream == \E n \in 1..MaxCap : ReadInto(n)

\* C9: every readinto call with capacity N >= 1 returns between 0 and N
\* bytes, returns 0 only when the iterator is exhausted and no remainder is
\* buffered, and the bytes returned before the first 0 are exactly the
\* chunks' bytes in order.
C9_ReadintoContract ==
    /\ stRet # -1 => (0 <= stRet /\ stRet <= stCap)
    /\ stRet = 0 => (stIter = << >> /\ stLeftover = << >>)
    /\ stZero => stOut = stAll

(***************************************************************************)
(* writer.write_dump: lines 9-34                                           *)
(***************************************************************************)
MaxLines == 2          \* lines in the stream given to write_dump

\* The lines of a stored dump: an insert statement and an ordinary line.
DumpLines == {INSERT_INTO_SP \o <<"t">> \o NL, <<"t">> \o NL}

StreamsOf(n) == UNION {[1..k -> DumpLines] : k \in 0..n}

\* Popen.returncode of the replay client: 0, an error status, or the
\* negative number of the signal that ended it.
ReturnCodes == {-9, 0, 1, 2}

\* What the client wrote to its stderr, as communicate() returns it.
ClientStderr(code) ==
    IF code = 0 THEN << >> ELSE <<"e", "r", "r">> \o NL

\* `if process.returncode > 0`
ReturnCodeFails(code) == code > 0

Outcome(kind, text) == [kind |-> kind, text |-> text]

WrFrame == UNCHANGED <<catVars, lnVars, stVars, exVars, apiVars, urlVars>>

\* write_dump is called with a stream (open or already closed); the client
\* it will start ends with one of the given exit statuses.
WrStart(streams, closedStates, codes) ==
    /\ wrPc = "start"
    /\ wrStream \in streams
    /\ wrClosed \in closedStates
    /\ wrLine = << >>
    /\ wrWritten = << >>
    /\ wrClient = "none"
    /\ wrCode \in codes
    /\ wrStdin = "open"
    /\ wrOutcome = Outcome("running", << >>)

\* lines 17-24: subprocess.Popen(['psql', '-f', '-', target], ...)
Popen ==
    /\ wrPc = "start"
    /\ wrClient' = "running"
    /\ wrPc' = "while"
    /\ UNCHANGED <<wrStream, wrClosed, wrLine, wrWritten, wrCode, wrStdin,
                   wrOutcome>>
    /\ WrFrame

\* The client ends (at any time: it may fail before reading all its input).
ClientExits ==
    /\ wrClient = "running"
    /\ wrClient' = "exited"
    /\ UNCHANGED <<wrPc, wrStream, wrClosed, wrLine, wrWritten, wrCode, wrStdin,
                   wrOutcome>>
    /\ WrFrame

\* The stream's owner closes it; write_dump itself never does.
StreamClosed ==
    /\ wrPc \in {"while", "readline", "write"}
    /\ ~wrClosed
    /\ wrClosed' = TRUE
    /\ UNCHANGED <<wrPc, wrStream, wrLine, wrWritten, wrClient, wrCode, wrStdin,
                   wrOutcome>>
    /\ WrFrame

\* line 28: `while not stream.closed`
WhileNotClosed ==
    /\ wrPc = "while"
    /\ wrPc' = IF wrClosed THEN "communicate" ELSE "readline"
    /\ UNCHANGED <<wrStream, wrClosed, wrLine, wrWritten, wrClient, wrCode,
                   wrStdin, wrOutcome>>
    /\ WrFrame

\* line 29: stream.readline(): the next line, b'' at end-of-data, ValueError
\* on a closed stream.
Readline ==
    /\ wrPc = "readline"
    /\ IF wrClosed
       THEN /\ wrOutcome' = Outcome("ValueError", << >>)
            /\ wrPc' = "finally"
            /\ UNCHANGED <<wrStream, wrLine>>
       ELSE /\ wrLine' = IF wrStream = << >> THEN << >> ELSE Head(wrStream)
            /\ wrStream' = IF wrStream = << >> THEN << >> ELSE Tail(wrStream)
            /\ wrPc' = "write"
            /\ UNCHANGED wrOutcome
    /\ UNCHANGED <<wrClosed, wrWritten, wrClient, wrCode, wrStdin>>
    /\ WrFrame

\* line 29: stdin.write(_fix_insert_statement(line)).  Writing b'' changes
\* nothing; a non-empty write to a client that has exited may raise
\* BrokenPipeError (when the buffered writer flushes) or stay buffered.
Write ==
    /\ wrPc = "write"
    /\ \/ /\ wrWritten' = IF wrLine = << >> THEN wrWritten
                          ELSE Append(wrWritten, _fix_insert_statement(wrLine))
          /\ wrPc' = "while"
          /\ UNCHANGED wrOutcome
       \/ /\ wrLine # << >>
          /\ wrClient = "exited"
          /\ wrOutcome' = Outcome("BrokenPipeError", << >>)
          /\ wrPc' = "finally"
          /\ UNCHANGED wrWritten
    /\ UNCHANGED <<wrStream, wrClosed, wrLine, wrClient, wrCode, wrStdin>>
    /\ WrFrame

\* line 30: process.communicate() closes stdin (ignoring a broken pipe),
\* reads the client's output and waits for it to end.
Communicate ==
    /\ wrPc = "communicate"
    /\ wrStdin' = "closed"
    /\ wrPc' = "wait"
    /\ UNCHANGED <<wrStream, wrClosed, wrLine, wrWritten, wrClient, wrCode,
                   wrOutcome>>
    /\ WrFrame

\* lines 30-32: communicate() returns once the client has ended; then
\* `if process.returncode > 0: raise WriterError(stderr.strip().decode())`.
CheckReturnCode ==
    /\ wrPc = "wait"
    /\ wrClient = "exited"
    /\ wrOutcome' = IF ReturnCodeFails(wrCode)
                    THEN Outcome("WriterError", strip(ClientStderr(wrCode)))
                    ELSE Outcome("returned", << >>)
    /\ wrPc' = "finally"
    /\ UNCHANGED <<wrStream, wrClosed, wrLine, wrWritten, wrClient, wrCode,
                   wrStdin>>
    /\ WrFrame

\* lines 33-34: finally: stdin.close()
Finally ==
    /\ wrPc = "finally"
    /\ wrStdin' = "closed"
    /\ wrPc' = "done"
    /\ UNCHANGED <<wrStream, wrClosed, wrLine, wrWritten, wrClient, wrCode,
                   wrOutcome>>
    /\ WrFrame

NextWriter ==
    \/ Popen
    \/ ClientExits
    \/ StreamClosed
    \/ WhileNotClosed
    \/ Readline
    \/ Write
    \/ Communicate
    \/ CheckReturnCode
    \/ Finally

\* C10: once write_dump has collected the client's exit status, it raises
\* WriterError with the client's stderr text whenever the status is not 0,
\* and returns normally only when the status is 0.
C10_NonZeroExitRaises ==
    (wrPc = "done" /\ wrOutcome.kind \in {"returned", "WriterError"}) =>
        /\ wrCode # 0 => wrOutcome = Outcome("WriterError", strip(ClientStderr(wrCode)))
        /\ wrOutcome.kind = "returned" => wrCode = 0

\* The steps write_dump itself takes.
WriteDumpStep ==
    \/ Popen
    \/ WhileNotClosed
    \/ Readline
    \/ Write
    \/ Communicate
    \/ CheckReturnCode
    \/ Finally

\* C21: write_dump terminates for every finite input stream: once readline
\* has returned b'' at end-of-data the feed loop stops, the client's exit
\* status is collected and write_dump returns or raises; with write_dump
\* taking its steps and the client ending, every call ends.
C21_WriteDumpTerminates == <>(wrPc = "done")

(***************************************************************************)
(* Extraction: dumper.extract_dump, _klepto_steal, _consume_output and     *)
(* utils.FileReaderThread                                                  *)
(***************************************************************************)
MaxOut == 2            \* lines the subprocess writes to stdout
MaxErr == 2            \* lines the subprocess writes to stderr
ErrPrefixLen == 15     \* dumper.py: line_string[:15]

Readers == {"stdout", "stderr"}

\* dumper.ERR_SYMBOL (a single non-ASCII character in the source).
ERR_SYMBOL == "X"

\* The diagnostic lines of the model: an informational line, an error line
\* with the symbol first, and a line whose symbol is its 16th character.
InfoLine == <<"i", "n", "f", "o">> \o NL
ErrLine == <<ERR_SYMBOL, " ", "e">> \o NL
LateSymbolLine == [i \in 1..ErrPrefixLen |-> "-"] \o <<ERR_SYMBOL>> \o NL
DiagLines == {InfoLine, ErrLine, LateSymbolLine}

\* The i-th line the subprocess writes to stdout: insert statements and
\* other lines alternate, and every line differs from the others.
OutLine(i) ==
    (IF i % 2 = 1 THEN INSERT_INTO_SP ELSE << >>) \o [k \in 1..i |-> "t"] \o NL

\* The subprocess's stdout when it writes n lines or fewer.
OutputsOf(n) == {[i \in 1..k |-> OutLine(i)] : k \in 0..n}

DiagsOf(n) == UNION {[1..k -> DiagLines] : k \in 0..n}

\* The subprocess's stderr when it prints n lines or fewer, informational
\* ones, the last of them possibly an error line.
DiagsEndingOf(n) ==
    {[i \in 1..k |-> IF i = k /\ failed THEN ErrLine ELSE InfoLine] :
        k \in 0..n, failed \in BOOLEAN}

ConfigStates == {"file", "missing", "directory"}

\* `ERR_SYMBOL in line_string[:15]`
HasErrSymbol(line_string) ==
    \E i \in 1..ErrPrefixLen : i <= Len(line_string) /\ line_string[i] = ERR_SYMBOL

\* The validation with the os.path.exists test alone.
_validate_klepto_configExistsOnly(config) ==
    IF config = "missing" THEN "not_found" ELSE "ok"

\* _validate_klepto_config: os.path.exists, then os.path.isfile.
_validate_klepto_config(config) ==
    IF config = "missing" THEN "not_found"
    ELSE IF config # "file" THEN "not_a_file"
    ELSE "ok"

\* threading.Thread.is_alive: started and run() not yet terminated.
is_alive(r) == rpc[r] \notin {"new", "dead"}

\* eof() without its queue test: `not self.is_alive()`.
eofIgnoringQueue(r) == ~is_alive(r)

\* FileReaderThread.eof: `not self.is_alive() and self._queue.empty()`
eof(r) == ~is_alive(r) /\ queue[r] = << >>

\* The closes written after the yield without try/finally: they run only
\* when the `with` body ends normally.
AfterBodyWithoutFinally(path) ==
    IF path = "completed" THEN "close_stdout" ELSE "exited"

\* _klepto_steal's try/finally: however the `with` body is left, control
\* goes to the finally block (stdout.close(), then stderr.close()).
AfterBody(path) == "close_stdout"

ExFrame == UNCHANGED <<catVars, lnVars, stVars, wrVars, apiVars, urlVars>>

\* Before extract_dump is called: nothing started, nothing read.
ExStart(configs, binaries, outs, errs) ==
    /\ exIn \in [config : configs, binary : binaries, out : outs, err : errs]
    /\ mpc = "extract"
    /\ gpc = "unstarted"
    /\ exitPath = "none"
    /\ rpc = [r \in Readers |-> "new"]
    /\ src = [r \in Readers |-> << >>]
    /\ held = [r \in Readers |-> << >>]
    /\ queue = [r \in Readers |-> << >>]
    /\ stopEvent = [r \in Readers |-> FALSE]
    /\ closed = [r \in Readers |-> FALSE]
    /\ joined = [r \in Readers |-> FALSE]
    /\ errMsg = << >>
    /\ yielded = << >>
    /\ putsAfterStop = [r \in Readers |-> 0]

\* extract_dump lines 35-38: validate the config path, then build the
\* context manager (nothing of _klepto_steal runs before the `with`).
ExtractDump ==
    /\ mpc = "extract"
    /\ IF _validate_klepto_config(exIn.config) = "ok"
       THEN mpc' = "enter" /\ UNCHANGED exitPath
       ELSE mpc' = "failed" /\ exitPath' = "config_error"
    /\ UNCHANGED <<exIn, putsAfterStop, gpc, rpc, src, held, queue, stopEvent, closed, joined,
                   errMsg, yielded>>
    /\ ExFrame

\* _klepto_steal lines 56-77 up to the yield: Popen, which raises
\* FileNotFoundError (turned into DumperError) when the binary is missing;
\* else the subprocess runs and the `with` body gets the stream.
Enter ==
    /\ mpc = "enter"
    /\ IF exIn.binary
       THEN /\ mpc' = "body"
            /\ src' = [r \in Readers |-> IF r = "stdout" THEN exIn.out ELSE exIn.err]
            /\ UNCHANGED exitPath
       ELSE /\ mpc' = "failed"
            /\ exitPath' = "popen_error"
            /\ UNCHANGED src
    /\ UNCHANGED <<exIn, putsAfterStop, gpc, rpc, held, queue, stopEvent, closed, joined, errMsg,
                   yielded>>
    /\ ExFrame

\* The consumer reads the stream: _IteratorStream.readinto calls
\* next(iterator), which runs the generator up to its next yield or its end.
ConsumerPull ==
    /\ mpc = "body"
    /\ gpc \in {"unstarted", "yielded"}
    /\ mpc' = "gen"
    /\ gpc' = IF gpc = "unstarted" THEN "start_stdout" ELSE "stdout_lines"
    /\ UNCHANGED <<exIn, putsAfterStop, exitPath, rpc, src, held, queue, stopEvent, closed,
                   joined, errMsg, yielded>>
    /\ ExFrame

\* The `with` body ends normally: after end-of-data, or with the consumer
\* having stopped reading part-way.
ConsumerLeaves ==
    /\ mpc = "body"
    /\ exitPath' = "completed"
    /\ mpc' = AfterBody("completed")
    /\ UNCHANGED <<exIn, putsAfterStop, gpc, rpc, src, held, queue, stopEvent, closed, joined,
                   errMsg, yielded>>
    /\ ExFrame

\* The consumer raises inside the `with` body (a failed upload, say).
ConsumerFails ==
    /\ mpc = "body"
    /\ exitPath' = "consumer_error"
    /\ mpc' = AfterBody("consumer_error")
    /\ UNCHANGED <<exIn, putsAfterStop, gpc, rpc, src, held, queue, stopEvent, closed, joined,
                   errMsg, yielded>>
    /\ ExFrame

\* _consume_output lines 98-101: create and start the two reader threads.
StartReader(r, next) ==
    /\ mpc = "gen"
    /\ gpc = "start_" \o r
    /\ rpc' = [rpc EXCEPT ![r] = "while"]
    /\ gpc' = next
    /\ UNCHANGED <<exIn, putsAfterStop, mpc, exitPath, src, held, queue, stopEvent, closed,
                   joined, errMsg, yielded>>
    /\ ExFrame

\* line 103: `while not (stdout_reader.eof() and stderr_reader.eof())`,
\* the left operand.
WhileStdoutEof ==
    /\ mpc = "gen"
    /\ gpc = "while"
    /\ gpc' = IF eof("stdout") THEN "while_stderr" ELSE "stderr_lines"
    /\ UNCHANGED <<exIn, putsAfterStop, mpc, exitPath, rpc, src, held, queue, stopEvent, closed,
                   joined, errMsg, yielded>>
    /\ ExFrame

\* line 103, the right operand (evaluated when the left one is true).
WhileStderrEof ==
    /\ mpc = "gen"
    /\ gpc = "while_stderr"
    /\ gpc' = IF eof("stderr") THEN "join_stdout" ELSE "stderr_lines"
    /\ UNCHANGED <<exIn, putsAfterStop, mpc, exitPath, rpc, src, held, queue, stopEvent, closed,
                   joined, errMsg, yielded>>
    /\ ExFrame

\* lines 104-115: one iteration of `for line_bytes in
\* stderr_reader.iter_lines()`: take a queued line, strip and decode it, and
\* on the error symbol stop both readers and remember the text; the loop
\* ends when the queue is empty.
StderrLines ==
    /\ mpc = "gen"
    /\ gpc = "stderr_lines"
    /\ IF queue["stderr"] = << >>
       THEN /\ gpc' = "stdout_lines"
            /\ UNCHANGED <<queue, stopEvent, errMsg>>
       ELSE LET line_string == strip(Head(queue["stderr"]))
            IN  /\ queue' = [queue EXCEPT !["stderr"] = Tail(queue["stderr"])]
                /\ IF HasErrSymbol(line_string)
                   THEN /\ stopEvent' = [r \in Readers |-> TRUE]
                        /\ errMsg' = line_string
                   ELSE UNCHANGED <<stopEvent, errMsg>>
                /\ UNCHANGED gpc
    /\ UNCHANGED <<exIn, putsAfterStop, mpc, exitPath, rpc, src, held, closed, joined, yielded>>
    /\ ExFrame

\* lines 117-118: one iteration of `for line_bytes in
\* stdout_reader.iter_lines(): yield _process_stdout_line(line_bytes)`; the
\* generator is suspended at the yield until the consumer pulls again.
StdoutLines ==
    /\ mpc = "gen"
    /\ gpc = "stdout_lines"
    /\ IF queue["stdout"] = << >>
       THEN /\ gpc' = "while"
            /\ UNCHANGED <<mpc, queue, yielded>>
       ELSE /\ queue' = [queue EXCEPT !["stdout"] = Tail(queue["stdout"])]
            /\ yielded' = Append(yielded, _process_stdout_line(Head(queue["stdout"])))
            /\ gpc' = "yielded"
            /\ mpc' = "body"
    /\ UNCHANGED <<exIn, putsAfterStop, exitPath, rpc, src, held, stopEvent, closed, joined,
                   errMsg>>
    /\ ExFrame

\* lines 121-122: join() returns once the thread has terminated.
Join(r, next) ==
    /\ mpc = "gen"
    /\ gpc = "join_" \o r
    /\ rpc[r] = "dead"
    /\ joined' = [joined EXCEPT ![r] = TRUE]
    /\ gpc' = next
    /\ UNCHANGED <<exIn, putsAfterStop, mpc, exitPath, rpc, src, held, queue, stopEvent, closed,
                   errMsg, yielded>>
    /\ ExFrame

\* lines 125-126: `if err_msg: raise DumperError(err_msg)`; the exception
\* leaves the `with` body through the consumer's read.  Otherwise the
\* generator ends and the consumer sees end-of-data.
GenEnd ==
    /\ mpc = "gen"
    /\ gpc = "end"
    /\ IF errMsg # << >>
       THEN /\ gpc' = "raised"
            /\ exitPath' = "dumper_error"
            /\ mpc' = AfterBody("dumper_error")
       ELSE /\ gpc' = "finished"
            /\ mpc' = "body"
            /\ UNCHANGED exitPath
    /\ UNCHANGED <<exIn, putsAfterStop, rpc, src, held, queue, stopEvent, closed, joined, errMsg,
                   yielded>>
    /\ ExFrame

\* _klepto_steal lines 75-77: finally: stdout.close(); stderr.close().
CloseHandle(r, next) ==
    /\ mpc = "close_" \o r
    /\ closed' = [closed EXCEPT ![r] = TRUE]
    /\ mpc' = next
    /\ UNCHANGED <<exIn, putsAfterStop, gpc, exitPath, rpc, src, held, queue, stopEvent, joined,
                   errMsg, yielded>>
    /\ ExFrame

\* FileReaderThread.run line 83: `while not self.is_stopped()`.
ThreadWhile(r) ==
    /\ rpc[r] = "while"
    /\ rpc' = [rpc EXCEPT ![r] = IF stopEvent[r] THEN "dead" ELSE "for"]
    /\ UNCHANGED <<exIn, putsAfterStop, mpc, gpc, exitPath, src, held, queue, stopEvent, closed,
                   joined, errMsg, yielded>>
    /\ ExFrame

\* line 84: `for line in self._fd`: the next line of the handle; the loop's
\* else branch at end-of-data; ValueError, which ends the thread, when the
\* handle has been closed.  The stop event is not looked at here.
ThreadRead(r) ==
    /\ rpc[r] = "for"
    /\ IF closed[r]
       THEN /\ rpc' = [rpc EXCEPT ![r] = "dead"]
            /\ UNCHANGED <<src, held>>
       ELSE IF src[r] = << >>
       THEN /\ rpc' = [rpc EXCEPT ![r] = "else"]
            /\ UNCHANGED <<src, held>>
       ELSE /\ held' = [held EXCEPT ![r] = Head(src[r])]
            /\ src' = [src EXCEPT ![r] = Tail(src[r])]
            /\ rpc' = [rpc EXCEPT ![r] = "put"]
    /\ UNCHANGED <<exIn, putsAfterStop, mpc, gpc, exitPath, queue, stopEvent, closed, joined,
                   errMsg, yielded>>
    /\ ExFrame

\* line 85: self._queue.put(line)
ThreadPut(r) ==
    /\ rpc[r] = "put"
    /\ queue' = [queue EXCEPT ![r] = Append(queue[r], held[r])]
    /\ held' = [held EXCEPT ![r] = << >>]
    /\ putsAfterStop' = [putsAfterStop EXCEPT
                            ![r] = IF stopEvent[r] THEN @ + 1 ELSE @]
    /\ rpc' = [rpc EXCEPT ![r] = "for"]
    /\ UNCHANGED <<exIn, mpc, gpc, exitPath, src, stopEvent, closed, joined,
                   errMsg, yielded>>
    /\ ExFrame

\* run() without `else: self.stop()`: at end-of-data the thread goes back to
\* the while test with its stop event as it was.
ThreadElseWithoutStop(r) ==
    /\ rpc[r] = "else"
    /\ rpc' = [rpc EXCEPT ![r] = "while"]
    /\ UNCHANGED <<exIn, putsAfterStop, mpc, gpc, exitPath, src, held, queue,
                   stopEvent, closed, joined, errMsg, yielded>>
    /\ ExFrame

\* lines 86-87: the for loop's else: self.stop()
ThreadElse(r) ==
    /\ rpc[r] = "else"
    /\ stopEvent' = [stopEvent EXCEPT ![r] = TRUE]
    /\ rpc' = [rpc EXCEPT ![r] = "while"]
    /\ UNCHANGED <<exIn, putsAfterStop, mpc, gpc, exitPath, src, held, queue, closed, joined,
                   errMsg, yielded>>
    /\ ExFrame

NextExtract ==
    \/ ExtractDump
    \/ Enter
    \/ ConsumerPull
    \/ ConsumerLeaves
    \/ ConsumerFails
    \/ StartReader("stdout", "start_stderr")
    \/ StartReader("stderr", "while")
    \/ WhileStdoutEof
    \/ WhileStderrEof
    \/ StderrLines
    \/ StdoutLines
    \/ Join("stdout", "join_stderr")
    \/ Join("stderr", "end")
    \/ GenEnd
    \/ CloseHandle("stdout", "close_stderr")
    \/ CloseHandle("stderr", "exited")
    \/ \E r \in Readers : ThreadWhile(r) \/ ThreadRead(r) \/ ThreadPut(r) \/ ThreadElse(r)

(***************************************************************************)
(* Claims about the extraction pipeline                                    *)
(***************************************************************************)
\* C2: once the control loop has seen a diagnostic line with the error
\* symbol (err_msg is set), the generator yields no further data line.
C2_NoYieldAfterSentinel == [][errMsg # << >> => yielded' = yielded]_vars

\* The stripped diagnostic lines of the run that carry the error symbol
\* within their first 15 characters.
SentinelLines ==
    {strip(exIn.err[i]) : i \in {j \in DOMAIN exIn.err : HasErrSymbol(strip(exIn.err[j]))}}

\* Both readers have terminated and been joined, and both queues are empty.
Drained ==
    \A r \in Readers : rpc[r] = "dead" /\ joined[r] /\ queue[r] = << >>

\* C3: a run read to the end ends with DumperError exactly when a diagnostic
\* line carried the error symbol within its first 15 characters; the error
\* text is such a line, and the run ends (either way) only after the polling
\* loop has drained both queues and both reader threads have been joined.
C3_ErrorAfterDrain ==
    /\ gpc = "raised" =>
           (errMsg \in SentinelLines /\ exitPath = "dumper_error" /\ Drained)
    /\ gpc = "finished" => (SentinelLines = {} /\ errMsg = << >> /\ Drained)

\* C3 witness: a run that ended with DumperError after yielding data and
\* after reading a second diagnostic line.
C3_Witness ==
    /\ gpc = "raised"
    /\ errMsg \in SentinelLines
    /\ yielded # << >>
    /\ Len(exIn.err) >= 2

\* C6: when the `with` block of _klepto_steal has exited, every reader
\* thread that was started has terminated and been joined.
C6_ReadersJoinedAtExit ==
    mpc = "exited" =>
        \A r \in Readers : rpc[r] # "new" => (rpc[r] = "dead" /\ joined[r])

\* C7: when the `with` block has exited after the subprocess was started,
\* both of its output handles are closed, whichever way the body was left.
C7_HandlesClosedAtExit ==
    /\ mpc = "exited" => \A r \in Readers : closed[r]
    /\ exitPath \in {"completed", "consumer_error", "dumper_error"} =>
           mpc \in {"close_stdout", "close_stderr", "exited"}

\* C7 witness: the block exited on a DumperError with both handles closed.
C7_Witness ==
    /\ mpc = "exited"
    /\ exitPath = "dumper_error"
    /\ \A r \in Readers : closed[r]

\* C15: extract_dump validates the configuration path before anything else:
\* when the path does not exist or is not a regular file the call fails with
\* DumperError (configuration error) and the subprocess is never started;
\* Popen is reached only after a successful validation.
C15_ValidateBeforeStart ==
    /\ exIn.config # "file" =>
           /\ mpc \in {"extract", "failed"}
           /\ mpc = "failed" => exitPath = "config_error"
           /\ gpc = "unstarted"
           /\ \A r \in Readers : rpc[r] = "new" /\ src[r] = << >>
    /\ (mpc \notin {"extract", "failed"} \/ exitPath = "popen_error") =>
           exIn.config = "file"

\* C15 witness: the call failed on a path that is a directory, with the
\* binary present and output it would have produced.
C15_Witness ==
    /\ mpc = "failed"
    /\ exitPath = "config_error"
    /\ exIn.config = "directory"
    /\ exIn.binary
    /\ exIn.out # << >>

\* C18: stopping a reader is bounded by one read: once its stop event is set
\* a reader enqueues at most the one line whose read was in flight, and then
\* terminates, also when its handle has further lines to deliver.
C18_StopBoundedByOneRead == \A r \in Readers : putsAfterStop[r] <= 1

\* A reader thread's steps, and the steps of the thread that runs the
\* generator and its consumer.
ThreadStep(r) == ThreadWhile(r) \/ ThreadRead(r) \/ ThreadPut(r) \/ ThreadElse(r)

\* The consumer leaves the `with` body once it has read to end-of-data.
ConsumerLeavesAtEnd == gpc = "finished" /\ ConsumerLeaves

ControlStep ==
    \/ ExtractDump
    \/ Enter
    \/ ConsumerPull
    \/ ConsumerLeavesAtEnd
    \/ StartReader("stdout", "start_stderr")
    \/ StartReader("stderr", "while")
    \/ WhileStdoutEof
    \/ WhileStderrEof
    \/ StderrLines
    \/ StdoutLines
    \/ Join("stdout", "join_stderr")
    \/ Join("stderr", "end")
    \/ GenEnd
    \/ CloseHandle("stdout", "close_stderr")
    \/ CloseHandle("stderr", "exited")

\* An extraction run whose consumer keeps reading until end-of-data or an
\* exception.
NextExtractRead == ControlStep \/ \E r \in Readers : ThreadStep(r)

\* The polling loop of _consume_output is over.
PollingDone == gpc \in {"join_stdout", "join_stderr", "end", "raised", "finished"}

\* C19: the control thread never blocks indefinitely: with both channels
\* reaching end-of-data, the reader threads scheduled fairly and a consumer
\* that keeps pulling, a generator that has started its readers eventually
\* sees eof() on both, leaves the polling loop and ends (queue.get() is only
\* called on a non-empty queue, so no step of the loop waits).
C19_PollingLoopExits ==
    /\ (gpc = "start_stdout") ~> PollingDone
    /\ (gpc = "start_stdout") ~> (gpc \in {"raised", "finished"})

\* C19 witness: the polling loop ended after both readers had lines to
\* deliver, the stdout queue having been found empty with its reader alive.
C19_Witness ==
    /\ gpc = "finished"
    /\ Len(exIn.out) = MaxOut
    /\ Len(exIn.err) = MaxErr
    /\ Len(yielded) = MaxOut

\* The transformed form of a sequence of stdout lines.
Transformed(lines) == [i \in DOMAIN lines |-> _process_stdout_line(lines[i])]

\* The stdout lines not yet yielded, in order: queued, in the reader's hand,
\* or still in the handle.
Pending ==
    queue["stdout"]
        \o (IF held["stdout"] = << >> THEN << >> ELSE <<held["stdout"]>>)
        \o src["stdout"]

\* C20: in a run with no sentinel on the diagnostic channel whose consumer
\* reads to the end, every line the subprocess wrote to stdout is yielded
\* exactly once, transformed, in the order written: at every moment the
\* lines yielded followed by the lines pending are the lines written, and
\* at end-of-data nothing is pending.
C20_EveryLineOnceInOrder ==
    (SentinelLines = {} /\ mpc \notin {"extract", "enter", "failed"}) =>
        /\ yielded \o Transformed(Pending) = Transformed(exIn.out)
        /\ gpc = "finished" => yielded = Transformed(exIn.out)

\* C20 witness: a run without sentinel read to end-of-data, with the last
\* stdout line yielded after the stdout reader had terminated.
C20_Witness ==
    /\ gpc = "finished"
    /\ SentinelLines = {}
    /\ exIn.err # << >>
    /\ Len(yielded) = MaxOut
    /\ yielded = Transformed(exIn.out)

(***************************************************************************)
(* Storage URLs: storage.py lines 140-172, 241-251                         *)
(***************************************************************************)
MaxPathSegs == 3       \* segments a path is made of

\* str.split(sep): the tokens between the occurrences of sep, left to right.
RECURSIVE split(_, _)
split(s, sep) ==
    IF s = << >> THEN << << >> >>
    ELSE IF startswith(s, sep)
         THEN << << >> >> \o split(SubSeq(s, Len(sep) + 1, Len(s)), sep)
         ELSE LET rest == split(Tail(s), sep)
              IN  << <<Head(s)>> \o rest[1] >> \o Tail(rest)

SCHEME_SEP == <<":", "/", "/">>
S3_NAME == <<"s", "3">>

\* The backend names tried: the supported one and an unsupported one.
Backends == {S3_NAME, <<"f", "s">>}

\* The pieces paths are built from.
PathSegments == {<<"b">>, <<"/">>, <<":">>, SCHEME_SEP}

RECURSIVE PathsOf(_)
PathsOf(n) ==
    IF n = 0 THEN {<< >>}
    ELSE LET shorter == PathsOf(n - 1)
         IN  shorter \cup {p \o g : p \in shorter, g \in PathSegments}

Paths == PathsOf(MaxPathSegs)

\* storage.is_backend_supported
is_backend_supported(name) == name = S3_NAME

\* The result of a call that returns a string or raises.
UrlValue(url) == [ok |-> TRUE, url |-> url, error |-> "none"]
UrlRaised(error) == [ok |-> FALSE, url |-> << >>, error |-> error]

\* storage.make_storage_url
make_storage_url(backend, path) ==
    IF ~is_backend_supported(backend)
    THEN UrlRaised("StorageBackendNotSupported")
    ELSE UrlValue(backend \o SCHEME_SEP \o path)

\* The result of parse_storage_url: a (backend, path) tuple or an exception.
Parsed(backend, path) ==
    [ok |-> TRUE, backend |-> backend, path |-> path, error |-> "none"]
ParseRaised(error) ==
    [ok |-> FALSE, backend |-> << >>, path |-> << >>, error |-> error]

\* storage.parse_storage_url
parse_storage_url(storage_url) ==
    LET tokens == split(storage_url, SCHEME_SEP)
    IN  IF Len(tokens) # 2 THEN ParseRaised("InvalidStorageURL")
        ELSE Parsed(tokens[1], tokens[2])

UrlFrame == UNCHANGED <<catVars, lnVars, stVars, wrVars, exVars, apiVars>>

UrlStart(backends, paths) ==
    /\ urlBackend \in backends
    /\ urlPath \in paths
    /\ urlMade = UrlRaised("none")
    /\ urlParsed = ParseRaised("none")
    /\ urlStage = "args"

\* storage.store / store_stream line 49, 68: make_storage_url(backend, path).
MakeUrl ==
    /\ urlStage = "args"
    /\ urlMade' = make_storage_url(urlBackend, urlPath)
    /\ urlStage' = "made"
    /\ UNCHANGED <<urlBackend, urlPath, urlParsed>>
    /\ UrlFrame

\* A storage_url that no make_storage_url call built (Dump.storage_url is
\* whatever the catalog document holds): the string urlPath itself.
GivenUrl ==
    /\ urlStage = "args"
    /\ urlMade' = UrlValue(urlPath)
    /\ urlStage' = "given"
    /\ UNCHANGED <<urlBackend, urlPath, urlParsed>>
    /\ UrlFrame

\* storage.read_storage_url / stream_storage_url line 117, 136:
\* parse_storage_url(storage_url).
ParseUrl ==
    /\ urlStage \in {"made", "given"}
    /\ urlMade.ok
    /\ urlParsed' = parse_storage_url(urlMade.url)
    /\ urlStage' = IF urlStage = "made" THEN "parsed_made" ELSE "parsed_given"
    /\ UNCHANGED <<urlBackend, urlPath, urlMade>>
    /\ UrlFrame

NextUrl == MakeUrl \/ GivenUrl \/ ParseUrl

\* The string contains the separator '://'.
HasSchemeSep(s) == Len(split(s, SCHEME_SEP)) > 1

\* C16: parse_storage_url splits at the first '://': for every backend and
\* every path, also a path that itself contains '://',
\* parse_storage_url(make_storage_url(backend, path)) is (backend, path), and
\* only strings with no '://' fail with InvalidStorageURL.
C16_ParseInvertsMake ==
    /\ urlStage = "parsed_made" =>
           urlParsed = Parsed(urlBackend, urlPath)
    /\ urlStage \in {"parsed_made", "parsed_given"} =>
           (urlParsed.ok <=> HasSchemeSep(urlMade.url))

(***************************************************************************)
(* Claims about the line transformers' output                              *)
(***************************************************************************)
\* C17: every line starting with 'INSERT INTO' leaves the line transformer
\* (the dumper's and the writer's) ending with ';' followed by a newline,
\* also when the input already ends with ';'.
C17_TerminatorAndNewline ==
    (lnStage # "raw" /\ startswith(lnIn, INSERT_INTO)) =>
        endswith(lnOnce, SEMI \o NL)

\* C23: the extraction-side and the restore-side transformer are the same
\* function: for every input line, what the transformer that ran returned is
\* both _process_stdout_line(line) and _fix_insert_statement(line), also for
\* 'INSERT INTO' lines that already end with ';' and for lines without the
\* marker.
C23_TransformersAgree ==
    lnStage # "raw" =>
        /\ lnOnce = _process_stdout_line(lnIn)
        /\ lnOnce = _fix_insert_statement(lnIn)

(***************************************************************************)
(* Specifications                                                          *)
(***************************************************************************)
\* Each specification runs one subsystem; the others stay in a start state
\* with empty inputs.
\* Concurrent stash commands updating one catalog.
InitCatalog ==
    /\ CatStart(Tries) /\ LnStart({"dumper"}, {<< >>}) /\ StStart({<< >>})
    /\ WrStart({<< >>}, {FALSE}, {0})
    /\ ExStart({"file"}, {TRUE}, {<< >>}, {<< >>})
    /\ ApiStart({EmptyStash}) /\ UrlStart({<< >>}, {<< >>})

SpecCatalog == InitCatalog /\ [][NextCatalog]_vars

\* The line transformers applied to bounded input lines.
InitLine ==
    /\ CatStart(Tries) /\ LnStart(LineFns, InputLines) /\ StStart({<< >>})
    /\ WrStart({<< >>}, {FALSE}, {0})
    /\ ExStart({"file"}, {TRUE}, {<< >>}, {<< >>})
    /\ ApiStart({EmptyStash}) /\ UrlStart({<< >>}, {<< >>})

SpecLine == InitLine /\ [][NextLine]_vars

\* _IteratorStream read to the end with varying buffer sizes.
InitStream ==
    /\ CatStart(Tries) /\ LnStart({"dumper"}, {<< >>}) /\ StStart(ChunkLengths)
    /\ WrStart({<< >>}, {FALSE}, {0})
    /\ ExStart({"file"}, {TRUE}, {<< >>}, {<< >>})
    /\ ApiStart({EmptyStash}) /\ UrlStart({<< >>}, {<< >>})

SpecStream == InitStream /\ [][NextStream]_vars

\* write_dump feeding a replay client.
InitWriter ==
    /\ CatStart(Tries) /\ LnStart({"dumper"}, {<< >>}) /\ StStart({<< >>})
    /\ WrStart(StreamsOf(MaxLines), BOOLEAN, ReturnCodes)
    /\ ExStart({"file"}, {TRUE}, {<< >>}, {<< >>})
    /\ ApiStart({EmptyStash}) /\ UrlStart({<< >>}, {<< >>})

SpecWriter == InitWriter /\ [][NextWriter]_vars

\* The same call with write_dump always taking its next step and the client
\* eventually ending; the stream's owner need not ever close the stream
\* (cmd.restore closes it only after write_dump has returned).
SpecWriterFair ==
    /\ InitWriter
    /\ [][NextWriter]_vars
    /\ WF_vars(WriteDumpStep)
    /\ WF_vars(ClientExits)

\* One extraction run: extract_dump, the `with` block and its consumer, the
\* generator and the two reader threads.
InitExtract ==
    /\ CatStart(Tries) /\ LnStart({"dumper"}, {<< >>}) /\ StStart({<< >>})
    /\ WrStart({<< >>}, {FALSE}, {0})
    /\ ExStart(ConfigStates, BOOLEAN, OutputsOf(MaxOut), DiagsOf(MaxErr))
    /\ ApiStart({EmptyStash}) /\ UrlStart({<< >>}, {<< >>})

SpecExtract == InitExtract /\ [][NextExtract]_vars

\* The same run with a consumer that reads to the end, every thread that
\* can take a step eventually taking one.
InitExtractRead ==
    /\ CatStart(Tries) /\ LnStart({"dumper"}, {<< >>}) /\ StStart({<< >>})
    /\ WrStart({<< >>}, {FALSE}, {0})
    /\ ExStart({"file"}, BOOLEAN, OutputsOf(MaxOut), DiagsEndingOf(MaxErr))
    /\ ApiStart({EmptyStash}) /\ UrlStart({<< >>}, {<< >>})

SpecExtractFair ==
    /\ InitExtractRead
    /\ [][NextExtractRead]_vars
    /\ WF_vars(ControlStep)
    /\ \A r \in Readers : WF_vars(ThreadStep(r))

\* A Stash object on which add_dump and tag_dump are called in any order.
InitStash ==
    /\ CatStart(Tries) /\ LnStart({"dumper"}, {<< >>}) /\ StStart({<< >>})
    /\ WrStart({<< >>}, {FALSE}, {0})
    /\ ExStart({"file"}, {TRUE}, {<< >>}, {<< >>})
    /\ ApiStart({EmptyStash}) /\ UrlStart({<< >>}, {<< >>})

SpecStash == InitStash /\ [][NextStash]_vars

\* make_storage_url and parse_storage_url on bounded backend names and paths.
InitUrl ==
    /\ CatStart(Tries) /\ LnStart({"dumper"}, {<< >>}) /\ StStart({<< >>})
    /\ WrStart({<< >>}, {FALSE}, {0})
    /\ ExStart({"file"}, {TRUE}, {<< >>}, {<< >>})
    /\ ApiStart({EmptyStash}) /\ UrlStart(Backends, Paths)

SpecUrl == InitUrl /\ [][NextUrl]_vars

=============================================================================
